---------------------------- MODULE Spec2Model ----------------------------
(***************************************************************************)
(* unicore-go: the Connect-RPC interceptor chain                           *)
(*   Logging -> Tenant -> Token -> handler                                 *)
(* with the context helper and the reflection-based sanitizer, and the     *)
(* data-access helpers: the paged result and the GORM query scopes.        *)
(*                                                                         *)
(* Every call runs on its own goroutine.  A call is a row of the           *)
(* variables below; an action is one step of one call.                     *)
(***************************************************************************)
EXTENDS Integers, Sequences, FiniteSets, TLC

\* Number of calls in flight (goroutines of the server).
NumCalls == 1

Calls == 1..NumCalls

-----------------------------------------------------------------------------
(* Go values as reflect sees them.                                         *)

GoNil == [k |-> "nil"]
GoPanic == [k |-> "panic"]
GoNilPtr == [k |-> "nilptr"]
GoString(s) == [k |-> "string", v |-> s]
GoInt(n) == [k |-> "int", n |-> n]
GoMap(m) == [k |-> "map", m |-> m]
GoPtr(e) == [k |-> "ptr", e |-> e]
GoStruct(fields) == [k |-> "struct", f |-> fields]
Field(name, exported, val) == [name |-> name, exported |-> exported, val |-> val]

\* reflect.Value.Kind()
Kind(v) == IF v.k = "nilptr" THEN "ptr" ELSE v.k

\* strings.ToLower on the field names that occur in the messages.
ToLower(name) ==
    CASE name = "Msg" -> "msg"
      [] name = "Name" -> "name"
      [] name = "Password" -> "password"
      [] name = "Token" -> "token"
      [] name = "ApiKey" -> "apikey"
      [] name = "Profile" -> "profile"
      [] name = "Id" -> "id"
      [] name = "PASSWORD" -> "password"
      [] name = "Secret" -> "secret"
      [] name = "Auth" -> "auth"
      [] name = "Count" -> "count"
      [] name = "Inner" -> "inner"
      [] name = "Ref" -> "ref"
      [] name = "apiKey" -> "apikey"
      [] OTHER -> name

\* sanitizeRequest: the configured sensitive field names.
sensitiveFields == {"password", "token", "secret", "apikey", "apiKey", "auth"}

Redacted == "[REDACTED]"

\* reflect.Zero(t), t the type of v.
RECURSIVE Zero(_)
Zero(v) ==
    CASE v.k = "string" -> GoString("")
      [] v.k = "int" -> GoInt(0)
      [] v.k = "map" -> GoMap({})
      [] v.k = "ptr" -> GoNilPtr
      [] v.k = "struct" ->
            GoStruct([i \in 1..Len(v.f) |-> [v.f[i] EXCEPT !.val = Zero(v.f[i].val)]])
      [] OTHER -> v

\* reflect.Value.Set: the value must be assignable to the field's type; a
\* mismatch panics.  Types are told apart by kind here.
SetField(fieldKind, val) == IF Kind(val) = fieldKind THEN val ELSE GoPanic

\* sanitize(v, sensitiveFields): the copy, or GoPanic when reflect panics.
RECURSIVE sanitize(_)
\* Mutant of sanitizeField: the field name is looked up as written.
sanitizeField_CaseSensitive(fld) ==
    IF ~fld.exported
      THEN Zero(fld.val)
      ELSE IF fld.name \in sensitiveFields
             THEN IF Kind(fld.val) = "string"
                    THEN GoString(Redacted)
                    ELSE Zero(fld.val)
             ELSE IF Kind(fld.val) = "struct"
                    THEN SetField("struct", sanitize(fld.val))
                    ELSE fld.val

sanitizeField(fld) ==
    IF ~fld.exported
      THEN Zero(fld.val)
      ELSE IF ToLower(fld.name) \in sensitiveFields
             THEN IF Kind(fld.val) = "string"
                    THEN GoString(Redacted)
                    ELSE Zero(fld.val)
             ELSE IF Kind(fld.val) = "struct"
                    THEN SetField("struct", sanitize(fld.val))
                    ELSE fld.val

sanitize(v) ==
    IF v = GoNil
      THEN GoNil
      ELSE LET rv == IF v.k = "ptr" THEN v.e ELSE v
           IN  IF Kind(rv) # "struct"
                 THEN v
                 ELSE LET vals == [i \in 1..Len(rv.f) |-> sanitizeField(rv.f[i])]
                      IN  IF \E i \in 1..Len(rv.f) : vals[i] = GoPanic
                            THEN GoPanic
                            ELSE GoPtr(GoStruct(
                                   [i \in 1..Len(rv.f) |-> [rv.f[i] EXCEPT !.val = vals[i]]]))

sanitizeRequest(req) == sanitize(req)

\* What zap.Any writes for a value: the strings held in exported fields,
\* pointers followed (the reflection encoder does not see unexported fields).
RECURSIVE Exposed(_)
Exposed(v) ==
    CASE v.k = "string" -> {v.v}
      [] v.k = "map" -> v.m
      [] v.k = "ptr" -> Exposed(v.e)
      [] v.k = "struct" ->
            UNION {IF v.f[i].exported THEN Exposed(v.f[i].val) ELSE {} : i \in 1..Len(v.f)}
      [] OTHER -> {}

-----------------------------------------------------------------------------
(* Context: keyed values; context.WithValue returns a new context.         *)

ContextKeyUser == "UserClaimsKey"
XTenantKey == "x-tenant-id"

CtxKeys == {ContextKeyUser, XTenantKey}
NoValue == [set |-> FALSE, v |-> ""]
\* gRPC incoming metadata of a context: absent, or the x-tenant-id values.
NoMetadata == [ok |-> FALSE, tenant |-> <<>>]
Background == [vals |-> [key \in CtxKeys |-> NoValue], md |-> NoMetadata]
\* The contexts the transport hands to the chain: none of the chain's keys
\* set; incoming metadata only when the call came in over gRPC.
BaseContexts ==
    {Background, [Background EXCEPT !.md = [ok |-> TRUE, tenant |-> <<"legacy-tenant">>]]}
WithValue(ctx, key, val) == [ctx EXCEPT !.vals[key] = [set |-> TRUE, v |-> val]]
Value(ctx, key) == ctx.vals[key]

\* Mutant of GetTenant: the metadata is consulted before the context value.
GetTenant_MetadataFirst(ctx) ==
    LET tenantID == Value(ctx, XTenantKey)
        companyID == ctx.md.tenant
    IN  IF ctx.md.ok /\ Len(companyID) > 0 /\ companyID[1] # ""
          THEN [id |-> companyID[1], err |-> FALSE]
          ELSE IF tenantID.set /\ tenantID.v # ""
                 THEN [id |-> tenantID.v, err |-> FALSE]
                 ELSE [id |-> "", err |-> TRUE]

\* Mutant of GetTenant: the first metadata value is returned unexamined.
GetTenant_NoEmptyCheck(ctx) ==
    LET tenantID == Value(ctx, XTenantKey)
        companyID == ctx.md.tenant
    IN  IF tenantID.set /\ tenantID.v # ""
          THEN [id |-> tenantID.v, err |-> FALSE]
          ELSE IF ctx.md.ok /\ Len(companyID) > 0
                 THEN [id |-> companyID[1], err |-> FALSE]
                 ELSE [id |-> "", err |-> TRUE]

\* contextHelper.GetTenant: the context value first, then the metadata.
GetTenant(ctx) ==
    LET tenantID == Value(ctx, XTenantKey)
        companyID == ctx.md.tenant
    IN  IF tenantID.set /\ tenantID.v # ""
          THEN [id |-> tenantID.v, err |-> FALSE]
          ELSE IF ctx.md.ok /\ Len(companyID) > 0 /\ companyID[1] # ""
                 THEN [id |-> companyID[1], err |-> FALSE]
                 ELSE [id |-> "", err |-> TRUE]

\* Mutant of GetUserClaims: a checked assertion, zero claims when absent.
GetUserClaims_Checked(ctx) ==
    LET userClaims == Value(ctx, ContextKeyUser)
    IN  [panic |-> FALSE, claims |-> IF userClaims.set THEN userClaims.v ELSE ""]

\* contextHelper.GetUserClaims: the unchecked type assertion panics on a
\* context without claims.
GetUserClaims(ctx) ==
    LET userClaims == Value(ctx, ContextKeyUser)
    IN  IF userClaims.set THEN [panic |-> FALSE, claims |-> userClaims.v]
                          ELSE [panic |-> TRUE, claims |-> ""]

-----------------------------------------------------------------------------
(* Errors: kind and Connect status code.                                   *)

NoErr == [kind |-> "nil", code |-> "ok"]
ConnectError(code, kind) == [kind |-> kind, code |-> code]

ErrMissingTenantHeader == ConnectError("invalid_argument", "MissingTenantHeader")
ErrFailedParsingTokenClaims == ConnectError("invalid_argument", "FailedParsingTokenClaims")
ErrInvalidToken == ConnectError("unauthenticated", "InvalidToken")
ErrMissingOrInvalidToken == ConnectError("unauthenticated", "MissingOrInvalidToken")

\* The exported error value of a kind.
Exported(kind) ==
    CASE kind = "MissingTenantHeader" -> ErrMissingTenantHeader
      [] kind = "FailedParsingTokenClaims" -> ErrFailedParsingTokenClaims
      [] kind = "InvalidToken" -> ErrInvalidToken
      [] kind = "MissingOrInvalidToken" -> ErrMissingOrInvalidToken
      [] OTHER -> NoErr

-----------------------------------------------------------------------------
(* The calls the transport delivers.                                       *)

TenantHeaders == {"", "acme", "globex"}
Procedures == {"/health.v1.Health/Check", "/orders.v1.Orders/List"}
\* The allow-list given to UnaryTokenInterceptor(routes...).
routes == {"/health.v1.Health/Check"}

\* Authorization header: absent, not a bearer header, a bearer header
\* without a token, or Bearer <token>.
NoAuthorization == [scheme |-> "", cred |-> ""]
Tokens == {"tok-alice", "tok-bob", "tok-forged", "tok-opaque"}
Malformed == {[scheme |-> "Basic", cred |-> "dXNlcjpwdw"], [scheme |-> "Bearer", cred |-> ""]}
AuthHeaders ==
    {NoAuthorization} \cup Malformed \cup {[scheme |-> "Bearer", cred |-> t] : t \in Tokens}

Requests == [procedure : Procedures, tenant : TenantHeaders, auth : AuthHeaders]

\* The request message (a generated protobuf struct; nested messages are
\* held by pointer).
RequestMsg ==
    GoStruct(<<Field("Name", TRUE, GoString("list-orders")),
               Field("Password", TRUE, GoString("hunter2")),
               Field("Profile", TRUE,
                     GoPtr(GoStruct(<<Field("ApiKey", TRUE, GoString("key-123"))>>)))>>)

\* *connect.Request[T], the only implementation of connect.AnyRequest:
\* Msg is its one exported field.
AnyRequest(r) ==
    GoPtr(GoStruct(<<Field("Msg", TRUE, GoPtr(RequestMsg)),
                     Field("spec", FALSE,
                           GoStruct(<<Field("Procedure", TRUE, GoString(r.procedure))>>)),
                     Field("peer", FALSE,
                           GoStruct(<<Field("Addr", TRUE, GoString("10.0.0.7"))>>)),
                     Field("header", FALSE, GoMap({r.tenant, r.auth.cred})),
                     Field("method", FALSE, GoString("POST"))>>))

\* The response message of a handler that succeeds, in a *connect.Response[T].
ResponseMsg ==
    GoStruct(<<Field("Id", TRUE, GoString("order-1")),
               Field("Token", TRUE, GoString("session-token"))>>)

AnyResponse ==
    GoPtr(GoStruct(<<Field("Msg", TRUE, GoPtr(ResponseMsg)),
                     Field("header", FALSE, GoMap({})),
                     Field("trailer", FALSE, GoMap({}))>>))

\* The error of a handler that fails.
HandlerError == ConnectError("not_found", "HandlerError")

-----------------------------------------------------------------------------
(* The collaborators of the Token Interceptor.                             *)

\* Authenticator.ExtractHeaderToken: the bearer token of the authorization
\* header, or an error when the header is absent or malformed.
ExtractHeaderToken(r) ==
    IF r.auth.scheme = "Bearer" /\ r.auth.cred # ""
      THEN [token |-> r.auth.cred, err |-> FALSE]
      ELSE [token |-> "", err |-> TRUE]

\* oidc.IDTokenVerifier.Verify: signature, issuer, audience and expiry.
Verify(token) ==
    IF token \in {"tok-alice", "tok-bob", "tok-opaque"}
      THEN [idToken |-> token, err |-> FALSE]
      ELSE [idToken |-> "", err |-> TRUE]

\* oidc.IDToken.Claims(&claims): the payload decoded into UserAuthClaims,
\* written here as the subject it names.
Claims(idToken) ==
    CASE idToken = "tok-alice" -> [claims |-> "alice", err |-> FALSE]
      [] idToken = "tok-bob" -> [claims |-> "bob", err |-> FALSE]
      [] OTHER -> [claims |-> "", err |-> TRUE]

-----------------------------------------------------------------------------
(* State of the calls.                                                     *)

VARIABLES
    req,       \* req[c]: the request the transport delivered
    pc,        \* pc[c]: where call c is in the chain
    ctx,       \* ctx[c]: the context argument of the function now running
    token,     \* token[c]: the token the Token Interceptor extracted
    trace,     \* trace[c]: the functions invoked for c, with their arguments
    result,    \* result[c]: (resp, err) returned to the Logging Interceptor
    returned,  \* returned[c]: (resp, err) returned to the transport
    log,       \* log[c]: the entries the logger wrote for c
    observed   \* observed[c]: what the handler read through the context helper

chainVars == <<req, pc, ctx, token, trace, result, returned, log, observed>>

(* State of a data-access caller: it holds a context and a page request,    *)
(* asks the context helper for the tenant and applies the scopes to a query.*)
VARIABLES
    callerCtx,   \* the context the caller holds
    pagination,  \* the *commonv1.PageRequest the caller holds
    db,          \* the *gorm.DB statement being built
    applied,     \* the scopes applied to db so far, in order
    tenantOut    \* what GetTenant returned to the caller

dataVars == <<callerCtx, pagination, db, applied, tenantOut>>

(* State of a caller of the paged result: the total it counted, the result  *)
(* it built, the limit it asks the page count for, and the answer.          *)
VARIABLES
    totalArg,    \* the total (int64) handed to NewPagedResult
    paged,       \* the *PagedResult
    limitArg,    \* the limit (int32) handed to GetTotalPages
    totalPages   \* what GetTotalPages returned
pagedVars == <<totalArg, paged, limitArg, totalPages>>

(* State of a caller of the sanitizer: the value and the sanitized copy.    *)
VARIABLES
    input,       \* the value handed to sanitize, as it is now
    original,    \* the value as it was before the call
    output       \* what sanitize returned
sanitizeVars == <<input, original, output>>

\* The state that is not the chain's.
otherVars == <<dataVars, pagedVars, sanitizeVars>>

vars == <<chainVars, otherVars>>

NoResult == [resp |-> GoNil, err |-> NoErr, set |-> FALSE]
Return(resp, err) == [resp |-> resp, err |-> err, set |-> TRUE]

\* One invocation: the function and the (ctx, req) it was given.
Invoke(fn, c, r) == [fn |-> fn, ctx |-> c, req |-> r]

\* One zap entry: message, method, payload, error, and the duration field.
Entry(msg, method, payload, err, duration) ==
    [msg |-> msg, method |-> method, payload |-> payload, err |-> err,
     duration |-> duration]

\* What a handler has read: the result of GetTenant, and of GetUserClaims
\* when it called it.
NotRead == [tenant |-> [id |-> "", err |-> FALSE], read |-> FALSE, panic |-> FALSE, claims |-> ""]
Read(tenant, readsClaims, userClaims) ==
    [tenant |-> tenant, read |-> readsClaims,
     panic |-> readsClaims /\ userClaims.panic,
     claims |-> IF readsClaims THEN userClaims.claims ELSE ""]

\* int32 arithmetic of Go: results wrap around modulo 2^32.
MaxInt32 == 2147483647

\* The i-th byte of the two's complement form of x.
Byte(x, i) ==
    LET shifted == IF i = 0 THEN x
                   ELSE IF i = 1 THEN x \div 256
                   ELSE IF i = 2 THEN x \div 65536
                   ELSE x \div 16777216
    IN  shifted % 256

\* a * b in int32: the low four bytes of the product, read as signed.
Int32Mul(a, b) ==
    LET col(k) == IF k = 0 THEN Byte(a, 0) * Byte(b, 0)
                  ELSE IF k = 1 THEN Byte(a, 0) * Byte(b, 1) + Byte(a, 1) * Byte(b, 0)
                  ELSE IF k = 2 THEN Byte(a, 0) * Byte(b, 2) + Byte(a, 1) * Byte(b, 1)
                                     + Byte(a, 2) * Byte(b, 0)
                  ELSE Byte(a, 0) * Byte(b, 3) + Byte(a, 1) * Byte(b, 2)
                       + Byte(a, 2) * Byte(b, 1) + Byte(a, 3) * Byte(b, 0)
        t0 == col(0)
        t1 == col(1) + (t0 \div 256)
        t2 == col(2) + (t1 \div 256)
        t3 == col(3) + (t2 \div 256)
        top == IF t3 % 256 >= 128 THEN (t3 % 256) - 256 ELSE t3 % 256
    IN  (top * 16777216) + ((t2 % 256) * 65536) + ((t1 % 256) * 256) + (t0 % 256)

\* *commonv1.PageRequest: nil, or a message with its four fields.
SortDirections == {"SORT_DIRECTION_UNSPECIFIED", "SORT_DIRECTION_ASC", "SORT_DIRECTION_DESC"}
NilPageRequest ==
    [nil |-> TRUE, page |-> 0, limit |-> 0, sort |-> "", direction |-> "SORT_DIRECTION_UNSPECIFIED"]
PageRequest(page, limit, sort, direction) ==
    [nil |-> FALSE, page |-> page, limit |-> limit, sort |-> sort, direction |-> direction]

\* The generated getters return the zero value on a nil message.
GetPage(p) == IF p.nil THEN 0 ELSE p.page
GetLimit(p) == IF p.nil THEN 0 ELSE p.limit
GetSort(p) == IF p.nil THEN "" ELSE p.sort
GetDirection(p) == IF p.nil THEN "SORT_DIRECTION_UNSPECIFIED" ELSE p.direction

\* The statement a *gorm.DB accumulates: WHERE predicates, the LIMIT clause
\* (Limit is a *int) and the ORDER BY columns.
NewDB ==
    [where |-> <<>>, limit |-> [set |-> FALSE, v |-> 0], offset |-> 0, order |-> <<>>]

\* db.Where appends a predicate.
Where(d, query, arg) == [d EXCEPT !.where = Append(@, [query |-> query, arg |-> arg])]

\* db.Limit and db.Offset add a clause.Limit, merged with the one present.
Limit(d, n) ==
    [d EXCEPT !.limit = IF n = 0 /\ d.limit.set THEN d.limit ELSE [set |-> TRUE, v |-> n]]
Offset(d, n) ==
    [d EXCEPT !.offset = IF n = 0 /\ d.offset > 0 THEN d.offset
                         ELSE IF n < 0 THEN 0 ELSE n]

\* db.Order appends a column to the ORDER BY clause.
Order(d, column) == [d EXCEPT !.order = Append(@, column)]

\* fmt.Sprintf("%s %s", sort, order)
SortOrder(sort, order) == [sort |-> sort, order |-> order]

\* What WithPaginationScope computes from the request.
PaginationArgs(p) ==
    LET page == IF GetPage(p) <= 0 THEN 1 ELSE GetPage(p)
        limit == IF GetLimit(p) <= 0 THEN 20 ELSE GetLimit(p)
        offset == Int32Mul(limit, page - 1)
        sort == IF GetSort(p) = "" THEN "created_at" ELSE GetSort(p)
        order == IF GetDirection(p) = "SORT_DIRECTION_ASC" THEN "asc" ELSE "desc"
    IN  [page |-> page, limit |-> limit, offset |-> offset, column |-> SortOrder(sort, order)]

\* Mutant of WithPaginationScope: the scope starts from a new statement.
WithPaginationScope_NewSession(p, d) ==
    LET a == PaginationArgs(p)
    IN  Order(Offset(Limit(NewDB, a.limit), a.offset), a.column)

WithPaginationScope(p, d) ==
    LET a == PaginationArgs(p)
    IN  Order(Offset(Limit(d, a.limit), a.offset), a.column)

WithTenantScope(c, d) ==
    LET tenantId == Value(c, XTenantKey)
    IN  Where(d, "tenant_id = ?", tenantId)

\* An int64 that is not negative, in two parts: hi * 2^16 + lo.
Int64(hi, lo) == [hi |-> hi, lo |-> lo]
\* int64(n) for an int32 n >= 0.
Int64Of(n) == Int64(n \div 65536, n % 65536)

\* x + int64(n) for an int32 n >= 0.
Int64Add(x, n) ==
    LET low == x.lo + (n % 65536)
    IN  Int64(x.hi + (n \div 65536) + (low \div 65536), low % 65536)

\* One step of the long division by d: the remainder r takes one more bit.
DivStep(r, d, bit) ==
    IF r >= (d - r) - bit
      THEN [r |-> r - ((d - r) - bit), q |-> 1]
      ELSE [r |-> r + r + bit, q |-> 0]

RECURSIVE Pow2(_)
Pow2(k) == IF k = 0 THEN 1 ELSE 2 * Pow2(k - 1)

\* The long division of the low k bits of lo, r being the remainder so far
\* and q the quotient so far.
RECURSIVE DivLow(_, _, _, _, _)
DivLow(lo, d, r, q, k) ==
    IF k = 0
      THEN q
      ELSE DivLow(lo, d, DivStep(r, d, (lo \div Pow2(k - 1)) % 2).r,
                  (2 * q) + DivStep(r, d, (lo \div Pow2(k - 1)) % 2).q, k - 1)

\* x / int64(d) for an int32 d > 0.
Int64Div(x, d) == Int64(x.hi \div d, DivLow(x.lo, d, x.hi % d, 0, 16))

\* int32(x): the low 32 bits, read as signed.
Int64ToInt32(x) ==
    LET high == x.hi % 65536
    IN  IF high >= 32768 THEN ((high - 65536) * 65536) + x.lo
                         ELSE (high * 65536) + x.lo

\* *PagedResult[T]: nil, or a result with its total.
NilPagedResult == [nil |-> TRUE, Total |-> Int64(0, 0)]
NewPagedResult(total) == [nil |-> FALSE, Total |-> total]

\* PagedResult.GetTotalPages
GetTotalPages(p, limit) ==
    IF p.nil \/ limit <= 0
      THEN 0
      ELSE Int64ToInt32(Int64Div(Int64Add(p.Total, limit - 1), limit))

\* GetTotalPages not called yet, and what it returned.
NoPages == [called |-> FALSE, pages |-> 0]
PagesReturned(n) == [called |-> TRUE, pages |-> n]

\* sanitize not called yet, and what it returned.
NotSanitized == [called |-> FALSE, v |-> GoNil]
Sanitized(v) == [called |-> TRUE, v |-> v]

\* No caller of the sanitizer.
SanitizeIdle ==
    /\ input = GoNil
    /\ original = GoNil
    /\ output = NotSanitized

\* No caller of the paged result.
PagedIdle ==
    /\ totalArg = Int64(0, 0)
    /\ paged = NilPagedResult
    /\ limitArg = 0
    /\ totalPages = NoPages

\* GetTenant not called yet, and what it returned.
NotCalled == [called |-> FALSE, id |-> "", err |-> FALSE]
Returned(r) == [called |-> TRUE, id |-> r.id, err |-> r.err]

\* No data-access caller.
DataIdle ==
    /\ callerCtx = Background
    /\ pagination = NilPageRequest
    /\ db = NewDB
    /\ applied = <<>>
    /\ tenantOut = NotCalled

Init ==
    /\ req \in [Calls -> Requests]
    /\ pc = [c \in Calls |-> "start"]
    /\ ctx \in [Calls -> BaseContexts]
    /\ token = [c \in Calls |-> ""]
    /\ trace = [c \in Calls |-> <<>>]
    /\ result = [c \in Calls |-> NoResult]
    /\ returned = [c \in Calls |-> NoResult]
    /\ log = [c \in Calls |-> <<>>]
    /\ observed = [c \in Calls |-> NotRead]
    /\ DataIdle
    /\ PagedIdle
    /\ SanitizeIdle

\* LoggingUnaryInterceptor up to its call of next.
LoggingUnaryInterceptor(c) ==
    /\ pc[c] = "start"
    /\ LET fullMethod == req[c].procedure
           sanitizedReq == sanitizeRequest(AnyRequest(req[c]))
       IN  IF sanitizedReq = GoPanic
             THEN /\ pc' = [pc EXCEPT ![c] = "panicked"]
                  /\ trace' = [trace EXCEPT ![c] = Append(@, Invoke("logging", ctx[c], req[c]))]
                  /\ log' = log
             ELSE /\ log' = [log EXCEPT ![c] =
                        Append(@, Entry("gRPC request received", fullMethod,
                                        sanitizedReq, NoErr, FALSE))]
                  /\ trace' = [trace EXCEPT ![c] =
                        @ \o <<Invoke("logging", ctx[c], req[c]),
                               Invoke("tenant", ctx[c], req[c])>>]
                  /\ pc' = [pc EXCEPT ![c] = "tenant"]
    /\ UNCHANGED <<req, ctx, token, result, returned, observed, otherVars>>

\* Mutant of UnaryTenantInterceptor: the empty header is not rejected.
UnaryTenantInterceptor_NoCheck(c) ==
    /\ pc[c] = "tenant"
    /\ LET newCtx == WithValue(ctx[c], XTenantKey, req[c].tenant)
       IN  /\ ctx' = [ctx EXCEPT ![c] = newCtx]
           /\ trace' = [trace EXCEPT ![c] = Append(@, Invoke("token", newCtx, req[c]))]
           /\ pc' = [pc EXCEPT ![c] = "token"]
    /\ UNCHANGED <<req, token, result, returned, log, observed, otherVars>>

\* Mutant of UnaryTenantInterceptor: the tenant id is kept in one place for
\* all the calls in flight.
UnaryTenantInterceptor_SharedTenant(c) ==
    /\ pc[c] = "tenant"
    /\ LET tenantID == req[c].tenant
           newCtx == WithValue(ctx[c], XTenantKey, tenantID)
       IN  IF tenantID = ""
             THEN /\ result' = [result EXCEPT ![c] = Return(GoNil, ErrMissingTenantHeader)]
                  /\ pc' = [pc EXCEPT ![c] = "logging"]
                  /\ UNCHANGED <<ctx, trace>>
             ELSE /\ ctx' = [d \in DOMAIN ctx |-> WithValue(ctx[d], XTenantKey, tenantID)]
                  /\ trace' = [trace EXCEPT ![c] = Append(@, Invoke("token", newCtx, req[c]))]
                  /\ pc' = [pc EXCEPT ![c] = "token"]
                  /\ UNCHANGED result
    /\ UNCHANGED <<req, token, returned, log, observed, otherVars>>

\* UnaryTenantInterceptor.
UnaryTenantInterceptor(c) ==
    /\ pc[c] = "tenant"
    /\ LET tenantID == req[c].tenant
           newCtx == WithValue(ctx[c], XTenantKey, tenantID)
       IN  IF tenantID = ""
             THEN /\ result' = [result EXCEPT ![c] = Return(GoNil, ErrMissingTenantHeader)]
                  /\ pc' = [pc EXCEPT ![c] = "logging"]
                  /\ UNCHANGED <<ctx, trace>>
             ELSE /\ ctx' = [ctx EXCEPT ![c] = newCtx]
                  /\ trace' = [trace EXCEPT ![c] = Append(@, Invoke("token", newCtx, req[c]))]
                  /\ pc' = [pc EXCEPT ![c] = "token"]
                  /\ UNCHANGED result
    /\ UNCHANGED <<req, token, returned, log, observed, otherVars>>

\* Mutant of UnaryTokenInterceptor: the extraction error is ignored.
UnaryTokenInterceptor_IgnoreExtractErr(c) ==
    /\ pc[c] = "token"
    /\ IF req[c].procedure \in routes
         THEN /\ trace' = [trace EXCEPT ![c] = Append(@, Invoke("handler", ctx[c], req[c]))]
              /\ pc' = [pc EXCEPT ![c] = "handler"]
              /\ UNCHANGED token
         ELSE /\ trace' = [trace EXCEPT ![c] =
                    Append(@, Invoke("ExtractHeaderToken", ctx[c], req[c]))]
              /\ token' = [token EXCEPT ![c] = ExtractHeaderToken(req[c]).token]
              /\ pc' = [pc EXCEPT ![c] = "verify"]
    /\ UNCHANGED <<req, ctx, result, returned, log, observed, otherVars>>

\* Mutant of UnaryTokenInterceptor: the allow-list is not consulted.
UnaryTokenInterceptor_NoAllowList(c) ==
    /\ pc[c] = "token"
    /\ trace' = [trace EXCEPT ![c] = Append(@, Invoke("ExtractHeaderToken", ctx[c], req[c]))]
    /\ IF ExtractHeaderToken(req[c]).err
         THEN /\ result' = [result EXCEPT ![c] =
                    Return(GoNil, ConnectError("unauthenticated", "MissingOrInvalidToken"))]
              /\ pc' = [pc EXCEPT ![c] = "logging"]
              /\ UNCHANGED token
         ELSE /\ token' = [token EXCEPT ![c] = ExtractHeaderToken(req[c]).token]
              /\ pc' = [pc EXCEPT ![c] = "verify"]
              /\ UNCHANGED result
    /\ UNCHANGED <<req, ctx, returned, log, observed, otherVars>>

\* UnaryTokenInterceptor: the allow-list, then the token extraction.
UnaryTokenInterceptor(c) ==
    /\ pc[c] = "token"
    /\ LET fullMethod == req[c].procedure
           extracted == ExtractHeaderToken(req[c])
       IN  IF fullMethod \in routes
             THEN /\ trace' = [trace EXCEPT ![c] = Append(@, Invoke("handler", ctx[c], req[c]))]
                  /\ pc' = [pc EXCEPT ![c] = "handler"]
                  /\ UNCHANGED <<token, result>>
             ELSE /\ trace' = [trace EXCEPT ![c] =
                        Append(@, Invoke("ExtractHeaderToken", ctx[c], req[c]))]
                  /\ IF extracted.err
                       THEN /\ result' = [result EXCEPT ![c] =
                                  Return(GoNil, ConnectError("unauthenticated",
                                                             "MissingOrInvalidToken"))]
                            /\ pc' = [pc EXCEPT ![c] = "logging"]
                            /\ UNCHANGED token
                       ELSE /\ token' = [token EXCEPT ![c] = extracted.token]
                            /\ pc' = [pc EXCEPT ![c] = "verify"]
                            /\ UNCHANGED result
    /\ UNCHANGED <<req, ctx, returned, log, observed, otherVars>>

\* Mutant of UnaryTokenInterceptorVerify: after a failed verification the
\* error is recorded but the interceptor goes on to decode the claims.
UnaryTokenInterceptorVerify_GoesOn(c) ==
    /\ pc[c] = "verify"
    /\ trace' = [trace EXCEPT ![c] = Append(@, Invoke("Verify", ctx[c], req[c]))]
    /\ result' = [result EXCEPT ![c] =
          IF Verify(token[c]).err
            THEN Return(GoNil, ConnectError("unauthenticated", "InvalidToken"))
            ELSE @]
    /\ pc' = [pc EXCEPT ![c] = "claims"]
    /\ UNCHANGED <<req, ctx, token, returned, log, observed, otherVars>>

\* UnaryTokenInterceptor: the verification by the identity provider.
UnaryTokenInterceptorVerify(c) ==
    /\ pc[c] = "verify"
    /\ trace' = [trace EXCEPT ![c] = Append(@, Invoke("Verify", ctx[c], req[c]))]
    /\ IF Verify(token[c]).err
         THEN /\ result' = [result EXCEPT ![c] =
                    Return(GoNil, ConnectError("unauthenticated", "InvalidToken"))]
              /\ pc' = [pc EXCEPT ![c] = "logging"]
         ELSE /\ pc' = [pc EXCEPT ![c] = "claims"]
              /\ UNCHANGED result
    /\ UNCHANGED <<req, ctx, token, returned, log, observed, otherVars>>

\* Mutant of UnaryTokenInterceptorClaims: the decoding error is ignored.
UnaryTokenInterceptorClaims_IgnoreDecodeErr(c) ==
    /\ pc[c] = "claims"
    /\ LET decoded == Claims(Verify(token[c]).idToken)
           newCtx == WithValue(ctx[c], ContextKeyUser, decoded.claims)
       IN  /\ ctx' = [ctx EXCEPT ![c] = newCtx]
           /\ trace' = [trace EXCEPT ![c] =
                 @ \o <<Invoke("Claims", ctx[c], req[c]), Invoke("handler", newCtx, req[c])>>]
           /\ pc' = [pc EXCEPT ![c] = "handler"]
    /\ UNCHANGED <<req, token, result, returned, log, observed, otherVars>>

\* Mutant of UnaryTokenInterceptorClaims: the tenant key is set again, to the
\* subject of the token.
UnaryTokenInterceptorClaims_OverwritesTenant(c) ==
    /\ pc[c] = "claims"
    /\ LET idToken == Verify(token[c]).idToken
           decoded == Claims(idToken)
           newCtx == WithValue(WithValue(ctx[c], ContextKeyUser, decoded.claims),
                              XTenantKey, decoded.claims)
       IN  IF decoded.err
             THEN /\ trace' = [trace EXCEPT ![c] = Append(@, Invoke("Claims", ctx[c], req[c]))]
                  /\ result' = [result EXCEPT ![c] =
                        Return(GoNil, ConnectError("internal", "FailedParsingTokenClaims"))]
                  /\ pc' = [pc EXCEPT ![c] = "logging"]
                  /\ UNCHANGED ctx
             ELSE /\ ctx' = [ctx EXCEPT ![c] = newCtx]
                  /\ trace' = [trace EXCEPT ![c] =
                        @ \o <<Invoke("Claims", ctx[c], req[c]),
                               Invoke("handler", newCtx, req[c])>>]
                  /\ pc' = [pc EXCEPT ![c] = "handler"]
                  /\ UNCHANGED result
    /\ UNCHANGED <<req, token, returned, log, observed, otherVars>>

\* UnaryTokenInterceptor: the claims decoded and attached, then next.
UnaryTokenInterceptorClaims(c) ==
    /\ pc[c] = "claims"
    /\ LET idToken == Verify(token[c]).idToken
           decoded == Claims(idToken)
           newCtx == WithValue(ctx[c], ContextKeyUser, decoded.claims)
       IN  IF decoded.err
             THEN /\ trace' = [trace EXCEPT ![c] = Append(@, Invoke("Claims", ctx[c], req[c]))]
                  /\ result' = [result EXCEPT ![c] =
                        Return(GoNil, ConnectError("internal", "FailedParsingTokenClaims"))]
                  /\ pc' = [pc EXCEPT ![c] = "logging"]
                  /\ UNCHANGED ctx
             ELSE /\ ctx' = [ctx EXCEPT ![c] = newCtx]
                  /\ trace' = [trace EXCEPT ![c] =
                        @ \o <<Invoke("Claims", ctx[c], req[c]),
                               Invoke("handler", newCtx, req[c])>>]
                  /\ pc' = [pc EXCEPT ![c] = "handler"]
                  /\ UNCHANGED result
    /\ UNCHANGED <<req, token, returned, log, observed, otherVars>>

\* The handler: it may read the claims through the context helper, and it
\* returns a response or an error.
Handler(c) ==
    /\ pc[c] = "handler"
    /\ \E readsClaims \in BOOLEAN, fails \in BOOLEAN :
          /\ observed' = [observed EXCEPT ![c] =
                Read(GetTenant(ctx[c]), readsClaims, GetUserClaims(ctx[c]))]
          /\ IF readsClaims /\ GetUserClaims(ctx[c]).panic
               THEN /\ pc' = [pc EXCEPT ![c] = "panicked"]
                    /\ UNCHANGED result
               ELSE /\ result' = [result EXCEPT ![c] =
                          IF fails THEN Return(GoNil, HandlerError)
                                   ELSE Return(AnyResponse, NoErr)]
                    /\ pc' = [pc EXCEPT ![c] = "logging"]
    /\ UNCHANGED <<req, ctx, token, trace, returned, log, otherVars>>

\* Mutant of LoggingUnaryInterceptorReturn: a failure is returned unlogged.
LoggingUnaryInterceptorReturn_NoFailureEntry(c) ==
    /\ pc[c] = "logging"
    /\ log' = [log EXCEPT ![c] =
          IF result[c].err # NoErr
            THEN @
            ELSE Append(@, Entry("gRPC request completed", req[c].procedure,
                                 result[c].resp, NoErr, TRUE))]
    /\ returned' = [returned EXCEPT ![c] = Return(result[c].resp, result[c].err)]
    /\ pc' = [pc EXCEPT ![c] = "done"]
    /\ UNCHANGED <<req, ctx, token, trace, result, observed, otherVars>>

\* Mutant of LoggingUnaryInterceptorReturn: the error is logged and then
\* swallowed.
LoggingUnaryInterceptorReturn_SwallowsError(c) ==
    /\ pc[c] = "logging"
    /\ log' = [log EXCEPT ![c] =
          IF result[c].err # NoErr
            THEN Append(@, Entry("gRPC request failed", req[c].procedure, GoNil,
                                 result[c].err, TRUE))
            ELSE Append(@, Entry("gRPC request completed", req[c].procedure,
                                 result[c].resp, NoErr, TRUE))]
    /\ returned' = [returned EXCEPT ![c] = Return(result[c].resp, NoErr)]
    /\ pc' = [pc EXCEPT ![c] = "done"]
    /\ UNCHANGED <<req, ctx, token, trace, result, observed, otherVars>>

\* LoggingUnaryInterceptor after next has returned.
LoggingUnaryInterceptorReturn(c) ==
    /\ pc[c] = "logging"
    /\ LET fullMethod == req[c].procedure
           resp == result[c].resp
           err == result[c].err
       IN  /\ log' = [log EXCEPT ![c] =
                 IF err # NoErr
                   THEN Append(@, Entry("gRPC request failed", fullMethod, GoNil, err, TRUE))
                   ELSE Append(@, Entry("gRPC request completed", fullMethod, resp, NoErr, TRUE))]
           /\ returned' = [returned EXCEPT ![c] = Return(resp, err)]
    /\ pc' = [pc EXCEPT ![c] = "done"]
    /\ UNCHANGED <<req, ctx, token, trace, result, observed, otherVars>>

Next ==
    \E c \in Calls :
        \/ LoggingUnaryInterceptor(c)
        \/ UnaryTenantInterceptor(c)
        \/ UnaryTokenInterceptor(c)
        \/ UnaryTokenInterceptorVerify(c)
        \/ UnaryTokenInterceptorClaims(c)
        \/ Handler(c)
        \/ LoggingUnaryInterceptorReturn(c)

Spec == Init /\ [][Next]_vars

-----------------------------------------------------------------------------
(* Reading the trace of a call.                                            *)

\* The positions of trace[c] at which fn was invoked.
Invocations(c, fn) == {i \in 1..Len(trace[c]) : trace[c][i].fn = fn}
Invoked(c, fn) == Invocations(c, fn) # {}
\* The (ctx, req) a function of the chain was given (it is invoked once).
ArgsOf(c, fn) == trace[c][CHOOSE i \in Invocations(c, fn) : TRUE]

Exempt(c) == req[c].procedure \in routes

-----------------------------------------------------------------------------
(* Claims.                                                                 *)

\* C1: a call without tenant header gets MissingTenantHeader from the Tenant
\* Interceptor and neither the Token Interceptor nor the handler is invoked
\* for it; a call with a tenant header has next (the Token Interceptor)
\* invoked exactly once, with a context whose tenant id is the header value.
C1_TenantInterceptor ==
    \A c \in Calls :
        /\ Cardinality(Invocations(c, "token")) <= 1
        /\ req[c].tenant = "" =>
              /\ ~Invoked(c, "token") /\ ~Invoked(c, "handler")
              /\ ~Invoked(c, "ExtractHeaderToken")
              /\ (pc[c] \in {"logging", "done"} =>
                     result[c] = Return(GoNil, ErrMissingTenantHeader))
        /\ (req[c].tenant # "" /\ Invoked(c, "tenant") /\ pc[c] # "tenant") =>
              /\ Cardinality(Invocations(c, "token")) = 1
              /\ Value(ArgsOf(c, "token").ctx, XTenantKey) = [set |-> TRUE, v |-> req[c].tenant]
              /\ ArgsOf(c, "token").req = req[c]

C1_Witness ==
    \E c \in Calls :
        /\ req[c].tenant = "" /\ pc[c] = "done"
        /\ returned[c] = Return(GoNil, ErrMissingTenantHeader)

\* C2: on a route outside the allow-list, a call whose token extraction
\* fails gets MissingOrInvalidToken (nil response) from the Token
\* Interceptor; the verifier and the handler are never invoked for it.
C2_NoTokenNoVerify ==
    \A c \in Calls :
        (~Exempt(c) /\ ExtractHeaderToken(req[c]).err) =>
            /\ ~Invoked(c, "Verify") /\ ~Invoked(c, "Claims") /\ ~Invoked(c, "handler")
            /\ Invoked(c, "ExtractHeaderToken") =>
                  /\ result[c].set /\ result[c].resp = GoNil
                  /\ result[c].err.kind = "MissingOrInvalidToken"
                  /\ pc[c] \in {"logging", "done"}

C2_Witness ==
    \E c \in Calls :
        /\ ~Exempt(c) /\ req[c].auth \in Malformed /\ req[c].tenant # ""
        /\ pc[c] = "done" /\ returned[c].err.kind = "MissingOrInvalidToken"

\* C3: on a route of the allow-list the Token Interceptor invokes next with
\* the context and request it was given (no claims attached) and neither
\* extracts nor verifies nor decodes a token, whatever the authorization
\* header holds.
C3_ExemptRoute ==
    \A c \in Calls :
        Exempt(c) =>
            /\ ~Invoked(c, "ExtractHeaderToken") /\ ~Invoked(c, "Verify")
            /\ ~Invoked(c, "Claims")
            /\ token[c] = ""
            /\ (Invoked(c, "token") /\ pc[c] # "token") =>
                  /\ Cardinality(Invocations(c, "handler")) = 1
                  /\ ArgsOf(c, "handler").ctx = ArgsOf(c, "token").ctx
                  /\ ArgsOf(c, "handler").req = ArgsOf(c, "token").req
                  /\ ~Value(ArgsOf(c, "handler").ctx, ContextKeyUser).set

C3_Witness ==
    \E c \in Calls :
        /\ Exempt(c) /\ req[c].auth = [scheme |-> "Bearer", cred |-> "tok-forged"]
        /\ pc[c] = "handler" /\ Invoked(c, "handler")

\* C4: while and after the handler runs, its context carries a non-empty
\* tenant id equal to the call's tenant header, on every route, and
\* GetTenant on that context returns it without error.
C4_HandlerHasTenant ==
    \A c \in Calls :
        Invoked(c, "handler") =>
            LET hctx == ArgsOf(c, "handler").ctx
            IN  /\ req[c].tenant # ""
                /\ Value(hctx, XTenantKey) = [set |-> TRUE, v |-> req[c].tenant]
                /\ GetTenant(hctx) = [id |-> req[c].tenant, err |-> FALSE]
                /\ pc[c] = "handler" => ctx[c] = hctx

C4_Witness ==
    \E c \in Calls :
        /\ pc[c] = "handler" /\ Exempt(c) /\ ctx[c].md.ok
        /\ GetTenant(ctx[c]).id = "globex"

\* C5: a handler of a route outside the allow-list runs only after the
\* extraction, the verification and the decoding succeeded, and its context
\* carries the claims decoded from the token of this call, which
\* GetUserClaims returns.
C5_HandlerHasClaims ==
    \A c \in Calls :
        (Invoked(c, "handler") /\ ~Exempt(c)) =>
            LET hctx == ArgsOf(c, "handler").ctx
                extracted == ExtractHeaderToken(req[c])
                verified == Verify(extracted.token)
                decoded == Claims(verified.idToken)
            IN  /\ ~extracted.err /\ ~verified.err /\ ~decoded.err
                /\ Cardinality(Invocations(c, "Verify")) = 1
                /\ Cardinality(Invocations(c, "Claims")) = 1
                /\ token[c] = extracted.token
                /\ GetUserClaims(hctx) = [panic |-> FALSE, claims |-> decoded.claims]

C5_Witness ==
    \E c \in Calls :
        /\ pc[c] = "handler" /\ ~Exempt(c)
        /\ GetUserClaims(ctx[c]) = [panic |-> FALSE, claims |-> "bob"]

\* The functions invoked for a call, in order.
Fns(c) == [i \in 1..Len(trace[c]) |-> trace[c][i].fn]

\* The place of a step in the chain.
Rank(fn) ==
    CASE fn = "logging" -> 1
      [] fn = "tenant" -> 2
      [] fn = "token" -> 3
      [] fn = "ExtractHeaderToken" -> 4
      [] fn = "Verify" -> 5
      [] fn = "Claims" -> 6
      [] fn = "handler" -> 7

\* The step at which a failure of a kind arises.
FailingStep(kind) ==
    CASE kind = "MissingTenantHeader" -> "tenant"
      [] kind = "MissingOrInvalidToken" -> "ExtractHeaderToken"
      [] kind = "InvalidToken" -> "Verify"
      [] kind = "FailedParsingTokenClaims" -> "Claims"
      [] kind = "HandlerError" -> "handler"

Failed(c) == result[c].set /\ result[c].err # NoErr

\* C6: the steps of a call run in the order tenant check, token extraction,
\* verification, decoding, handler, each at most once; a failure is the last
\* step of its call (nothing of the chain runs after it, the call only
\* returns through the Logging Interceptor); a call that completes went
\* through the whole chain.
C6_StateMachine ==
    \A c \in Calls :
        /\ \A i, j \in 1..Len(trace[c]) :
              i < j => Rank(trace[c][i].fn) < Rank(trace[c][j].fn)
        /\ Failed(c) =>
              /\ trace[c][Len(trace[c])].fn = FailingStep(result[c].err.kind)
              /\ pc[c] \in {"logging", "done"}
        /\ (result[c].set /\ result[c].err = NoErr) =>
              Fns(c) = IF Exempt(c)
                         THEN <<"logging", "tenant", "token", "handler">>
                         ELSE <<"logging", "tenant", "token", "ExtractHeaderToken",
                                "Verify", "Claims", "handler">>

C6_Witness ==
    \E c \in Calls :
        /\ pc[c] = "done" /\ returned[c].err.kind = "InvalidToken"
        /\ Fns(c) = <<"logging", "tenant", "token", "ExtractHeaderToken", "Verify">>

\* The status class the error table gives a kind.
StatusClass(kind) ==
    CASE kind = "MissingTenantHeader" -> "invalid_argument"
      [] kind = "MissingOrInvalidToken" -> "unauthenticated"
      [] kind = "InvalidToken" -> "unauthenticated"
      [] kind = "FailedParsingTokenClaims" -> "internal"

ErrorKinds ==
    {"MissingTenantHeader", "MissingOrInvalidToken", "InvalidToken",
     "FailedParsingTokenClaims"}

\* C7: a failure of the chain carries the status class of its kind, and the
\* exported error value of that kind carries the same status class.
C7_StatusClasses ==
    \A c \in Calls :
        (result[c].set /\ result[c].err.kind \in ErrorKinds) =>
            /\ result[c].err.code = StatusClass(result[c].err.kind)
            /\ Exported(result[c].err.kind).code = result[c].err.code

\* C8: a call that returns an error has exactly one failure entry, written
\* after its "request received" entry and before the error is returned,
\* carrying that error and the duration.
FailureEntries(c) == {i \in 1..Len(log[c]) : log[c][i].msg = "gRPC request failed"}

C9_LoggingTransparent ==
    \A c \in Calls :
        /\ returned[c].set =>
              /\ result[c].set
              /\ returned[c].resp = result[c].resp
              /\ returned[c].err = result[c].err
        /\ Cardinality(Invocations(c, "tenant")) <= 1
        /\ pc[c] # "start" =>
              /\ Cardinality(Invocations(c, "tenant")) = 1
              /\ ArgsOf(c, "tenant").ctx = ArgsOf(c, "logging").ctx
              /\ ArgsOf(c, "tenant").req = ArgsOf(c, "logging").req
              /\ ArgsOf(c, "logging").req = req[c]
        /\ pc[c] = "panicked" => Invoked(c, "handler")
        /\ pc[c] = "done" => returned[c].set

C9_Witness ==
    \E c \in Calls :
        /\ pc[c] = "done" /\ returned[c] = Return(GoNil, HandlerError)
        /\ result[c] = returned[c]

\* The strings a message holds in fields with a sensitive name.
RECURSIVE SensitiveValues(_)
SensitiveValues(v) ==
    CASE v.k = "ptr" -> SensitiveValues(v.e)
      [] v.k = "struct" ->
            UNION {IF ToLower(v.f[i].name) \in sensitiveFields
                     THEN Exposed(v.f[i].val)
                     ELSE SensitiveValues(v.f[i].val) : i \in 1..Len(v.f)}
      [] OTHER -> {}

\* C10: no log entry exposes the value of a sensitive field of the request
\* or response message, nor the raw bearer token; the success entry holds
\* the sanitized response.
C10_NoSecretLogged ==
    \A c \in Calls :
        \A i \in 1..Len(log[c]) :
            /\ Exposed(log[c][i].payload)
                  \cap (SensitiveValues(RequestMsg) \cup SensitiveValues(ResponseMsg)
                          \cup ({req[c].auth.cred} \ {""})) = {}
            /\ log[c][i].msg = "gRPC request received" =>
                  log[c][i].payload = sanitizeRequest(AnyRequest(req[c]))
            /\ log[c][i].msg = "gRPC request completed" =>
                  log[c][i].payload = sanitize(result[c].resp)

-----------------------------------------------------------------------------
(* The data-access caller: a context from the chain or from a caller that  *)
(* bypassed it, the context helper, and the query scopes.                  *)

\* The x-tenant-id values of gRPC incoming metadata.
Metadatas ==
    {NoMetadata} \cup
    {[ok |-> TRUE, tenant |-> t] :
        t \in {<<>>, <<"">>, <<"legacy-tenant">>, <<"", "legacy-tenant">>,
               <<"legacy-tenant", "other-tenant">>}}

\* The contexts a caller may hold: the tenant key unset, set to "" or set
\* to a tenant id, with any metadata.
Contexts ==
    {[vals |-> [key \in CtxKeys |-> IF key = XTenantKey THEN tv ELSE NoValue], md |-> m] :
        tv \in {NoValue, [set |-> TRUE, v |-> ""], [set |-> TRUE, v |-> "acme"]},
        m \in Metadatas}

\* The caller asks the context helper for the tenant.
CallGetTenant ==
    /\ ~tenantOut.called
    /\ tenantOut' = Returned(GetTenant(callerCtx))
    /\ UNCHANGED <<callerCtx, pagination, db, applied, chainVars, pagedVars, sanitizeVars>>

\* The page requests a caller may pass: nil, and every mix of small, zero,
\* negative and large int32 values.
Pages == {-1, 0, 1, 2, 3, 1073741826, MaxInt32}
Limits == {-5, 0, 1, 4, 20, MaxInt32}
Sorts == {"", "name"}
PageRequests ==
    {NilPageRequest} \cup
    {PageRequest(page, limit, sort, direction) :
        page \in Pages, limit \in Limits, sort \in Sorts, direction \in SortDirections}

\* How many scopes a caller chains on one query.
MaxScopes == 2

\* A scope call and the arguments it handed to the query builder.
TenantCall(c) ==
    [scope |-> "tenant", tenantId |-> Value(c, XTenantKey),
     limit |-> 0, offset |-> 0, column |-> SortOrder("", "")]
PaginationCall(p) ==
    [scope |-> "pagination", tenantId |-> NoValue,
     limit |-> PaginationArgs(p).limit, offset |-> PaginationArgs(p).offset,
     column |-> PaginationArgs(p).column]

\* No request in the chain.
ChainIdle ==
    /\ req = [c \in Calls |-> CHOOSE r \in Requests : TRUE]
    /\ pc = [c \in Calls |-> "idle"]
    /\ ctx = [c \in Calls |-> Background]
    /\ token = [c \in Calls |-> ""]
    /\ trace = [c \in Calls |-> <<>>]
    /\ result = [c \in Calls |-> NoResult]
    /\ returned = [c \in Calls |-> NoResult]
    /\ log = [c \in Calls |-> <<>>]
    /\ observed = [c \in Calls |-> NotRead]

InitData ==
    /\ ChainIdle
    /\ callerCtx \in Contexts
    /\ pagination \in PageRequests
    /\ db = NewDB
    /\ applied = <<>>
    /\ tenantOut = NotCalled
    /\ PagedIdle
    /\ SanitizeIdle

\* db.Scopes(WithTenantScope(ctx))
ApplyTenantScope ==
    /\ Len(applied) < MaxScopes
    /\ db' = WithTenantScope(callerCtx, db)
    /\ applied' = Append(applied, TenantCall(callerCtx))
    /\ UNCHANGED <<callerCtx, pagination, tenantOut, chainVars, pagedVars, sanitizeVars>>

\* db.Scopes(WithPaginationScope(pagination))
ApplyPaginationScope ==
    /\ Len(applied) < MaxScopes
    /\ db' = WithPaginationScope(pagination, db)
    /\ applied' = Append(applied, PaginationCall(pagination))
    /\ UNCHANGED <<callerCtx, pagination, tenantOut, chainVars, pagedVars, sanitizeVars>>

NextData ==
    \/ CallGetTenant
    \/ ApplyTenantScope
    \/ ApplyPaginationScope

SpecData == InitData /\ [][NextData]_vars

\* C11 (as stated): GetTenant returns the non-empty tenant id of the context
\* when there is one, otherwise the first non-empty x-tenant-id value of the
\* incoming metadata, and an error with an empty id exactly when neither
\* source has a non-empty value; never an empty id without an error.
NonEmpty(values) == SelectSeq(values, LAMBDA v : v # "")
C11_GetTenant_FirstNonEmpty ==
    tenantOut.called =>
        LET tenantID == Value(callerCtx, XTenantKey)
            fromMetadata == IF callerCtx.md.ok THEN NonEmpty(callerCtx.md.tenant) ELSE <<>>
        IN  /\ (tenantID.set /\ tenantID.v # "") =>
                  (tenantOut.id = tenantID.v /\ ~tenantOut.err)
            /\ (~(tenantID.set /\ tenantID.v # "") /\ fromMetadata # <<>>) =>
                  (tenantOut.id = Head(fromMetadata) /\ ~tenantOut.err)
            /\ tenantOut.err <=> (~(tenantID.set /\ tenantID.v # "") /\ fromMetadata = <<>>)
            /\ tenantOut.err => tenantOut.id = ""
            /\ tenantOut.id = "" => tenantOut.err

\* C11 (amended): the fallback looks at the first x-tenant-id value of the
\* metadata only; the error is returned exactly when the context has no
\* non-empty tenant id and the metadata is absent, has no x-tenant-id value
\* or has an empty first one.  Never an empty id without an error.
C11_GetTenant ==
    tenantOut.called =>
        LET tenantID == Value(callerCtx, XTenantKey)
            inCtx == tenantID.set /\ tenantID.v # ""
            values == IF callerCtx.md.ok THEN callerCtx.md.tenant ELSE <<>>
            inMetadata == values # <<>> /\ Head(values) # ""
        IN  /\ inCtx => (tenantOut.id = tenantID.v /\ ~tenantOut.err)
            /\ (~inCtx /\ inMetadata) => (tenantOut.id = Head(values) /\ ~tenantOut.err)
            /\ tenantOut.err <=> (~inCtx /\ ~inMetadata)
            /\ tenantOut.err => tenantOut.id = ""
            /\ tenantOut.id = "" => tenantOut.err

\* C11 witness: the fallback served a caller whose context has no tenant id,
\* and another caller got the error.
C11_Witness ==
    /\ tenantOut.called
    /\ ~Value(callerCtx, XTenantKey).set
    /\ callerCtx.md.ok
    /\ tenantOut.id = "legacy-tenant"
    /\ ~tenantOut.err

\* C12: a handler that called GetUserClaims got the claims the Token
\* Interceptor attached for this call, the ones decoded from its token; when
\* none were attached (an exempt route) the call did not return claims but
\* failed: the handler ends panicked, with no result for the caller.
C12_GetUserClaims ==
    \A c \in Calls :
        observed[c].read =>
            LET attached == Value(ArgsOf(c, "handler").ctx, ContextKeyUser)
            IN  /\ attached.set <=> ~Exempt(c)
                /\ attached.set =>
                      /\ ~observed[c].panic
                      /\ observed[c].claims = attached.v
                      /\ observed[c].claims = Claims(Verify(token[c]).idToken).claims
                      /\ pc[c] # "panicked"
                /\ ~attached.set =>
                      /\ observed[c].panic
                      /\ observed[c].claims = ""
                      /\ pc[c] = "panicked"
                      /\ result[c] = NoResult /\ returned[c] = NoResult

\* C12 witness: a handler on an exempt route called GetUserClaims.
C12_Witness ==
    \E c \in Calls :
        /\ Exempt(c) /\ Invoked(c, "handler")
        /\ observed[c].read /\ observed[c].panic
        /\ pc[c] = "panicked"

\* The contexts handed down the chain of call c, in order.
ContextsOf(c) == [i \in 1..Len(trace[c]) |-> trace[c][i].ctx]

\* C13: within one call a context key that has been set keeps its value in
\* every later step (later interceptor, handler, helper), and a key changes
\* only by being set where it was unset: the tenant key by the Tenant
\* Interceptor, the claims key by the Token Interceptor.
C13_WriteOnce ==
    /\ [](\A c \in Calls : \A key \in CtxKeys :
            /\ \A i, j \in 1..Len(trace[c]) :
                  (i < j /\ Value(ContextsOf(c)[i], key).set) =>
                      Value(ContextsOf(c)[j], key) = Value(ContextsOf(c)[i], key)
            /\ (Len(trace[c]) > 0 /\ Value(ContextsOf(c)[Len(trace[c])], key).set) =>
                  Value(ctx[c], key) = Value(ContextsOf(c)[Len(trace[c])], key)
            /\ (observed[c].read /\ Value(ctx[c], ContextKeyUser).set) =>
                  observed[c].claims = Value(ctx[c], ContextKeyUser).v
            /\ (pc[c] \in {"logging", "done"} /\ Invoked(c, "handler")) =>
                  observed[c].tenant.id = Value(ctx[c], XTenantKey).v)
    /\ [][\A c \in Calls : \A key \in CtxKeys :
            Value(ctx[c], key)' # Value(ctx[c], key) =>
                /\ ~Value(ctx[c], key).set
                /\ Value(ctx[c], key)'.set
                /\ pc[c] = (IF key = XTenantKey THEN "tenant" ELSE "claims")]_vars

\* C13 witness: a call went through both interceptors and its handler; both
\* keys are set.
C13_Witness ==
    \E c \in Calls :
        /\ pc[c] = "done"
        /\ Invoked(c, "handler")
        /\ Value(ctx[c], XTenantKey).set
        /\ Value(ctx[c], ContextKeyUser).set

\* The pagination calls made on the query so far.
PaginationCalls == SelectSeq(applied, LAMBDA call : call.scope = "pagination")

\* C14 (as stated): the pagination scope applies page 1 for page <= 0, limit
\* 20 for limit <= 0, offset = (page - 1) * limit of the effective values,
\* sort field created_at when empty and direction desc unless asc is
\* requested; the offset it applies is never negative.
C14_PaginationDefaults ==
    \A i \in 1..Len(PaginationCalls) :
        LET call == PaginationCalls[i]
            page == IF GetPage(pagination) <= 0 THEN 1 ELSE GetPage(pagination)
            limit == IF GetLimit(pagination) <= 0 THEN 20 ELSE GetLimit(pagination)
        IN  /\ call.limit = limit
            /\ call.offset >= 0
            /\ call.offset % limit = 0
            /\ call.offset \div limit = page - 1
            /\ call.column.sort = (IF GetSort(pagination) = "" THEN "created_at"
                                   ELSE GetSort(pagination))
            /\ call.column.order = (IF GetDirection(pagination) = "SORT_DIRECTION_ASC"
                                    THEN "asc" ELSE "desc")
            /\ db.limit = [set |-> TRUE, v |-> limit]
            /\ db.offset >= 0

-----------------------------------------------------------------------------
(* The caller of the paged result.                                         *)

\* The totals a query may count: small ones, and ones beyond 32 bits.
Totals ==
    {Int64Of(n) : n \in {0, 1, 19, 20, 21, 40, 95, MaxInt32}} \cup
    {Int64(32768, 0), Int64(65536, 0), Int64(65536, 5), Int64(131072, 1)}
LimitArgs == {-1, 0, 1, 2, 20, MaxInt32}

InitPaged ==
    /\ ChainIdle
    /\ DataIdle
    /\ SanitizeIdle
    /\ totalArg \in Totals
    /\ paged = NilPagedResult
    /\ limitArg \in LimitArgs
    /\ totalPages = NoPages

\* result := NewPagedResult(total, items)
CallNewPagedResult ==
    /\ paged.nil
    /\ ~totalPages.called
    /\ paged' = NewPagedResult(totalArg)
    /\ UNCHANGED <<totalArg, limitArg, totalPages, chainVars, dataVars, sanitizeVars>>

\* result.GetTotalPages(limit)
CallGetTotalPages ==
    /\ ~totalPages.called
    /\ totalPages' = PagesReturned(GetTotalPages(paged, limitArg))
    /\ UNCHANGED <<totalArg, paged, limitArg, chainVars, dataVars, sanitizeVars>>

NextPaged ==
    \/ CallNewPagedResult
    \/ CallGetTotalPages

SpecPaged == InitPaged /\ [][NextPaged]_vars

\* C15 (as stated): GetTotalPages is 0 on an absent result and for
\* limit <= 0; for limit > 0 and total >= 0 it is ceil(total / limit): the
\* least number of pages of that size which hold total items.
C15_GetTotalPages ==
    totalPages.called =>
        IF paged.nil \/ limitArg <= 0
          THEN totalPages.pages = 0
          ELSE LET total == paged.Total
                   pages == totalPages.pages
               IN  IF total.hi < 32768
                     THEN LET n == (total.hi * 65536) + total.lo
                          IN  pages = (n \div limitArg)
                                        + (IF n % limitArg = 0 THEN 0 ELSE 1)
                     ELSE /\ pages >= 1
                          /\ Int64Of(pages) = Int64Div(Int64Add(total, limitArg - 1), limitArg)

\* The scopes applied to the query so far.
ScopesApplied == {applied[i].scope : i \in 1..Len(applied)}

\* The query after each applied scope was applied once, tenant scope first.
AppliedOnce ==
    LET tenant == IF "tenant" \in ScopesApplied THEN WithTenantScope(callerCtx, NewDB)
                                                ELSE NewDB
    IN  IF "pagination" \in ScopesApplied THEN WithPaginationScope(pagination, tenant)
                                          ELSE tenant

\* A sequence without the repetitions of its elements.
RECURSIVE Distinct(_)
Distinct(seq) ==
    IF seq = <<>>
      THEN <<>>
      ELSE LET front == Distinct(SubSeq(seq, 1, Len(seq) - 1))
               last == seq[Len(seq)]
           IN  IF \E i \in 1..Len(front) : front[i] = last THEN front
                                                           ELSE Append(front, last)

\* What a statement selects: a repeated predicate filters nothing more and
\* a repeated sort key orders nothing more.
Selects(d) == [d EXCEPT !.where = Distinct(@), !.order = Distinct(@)]

\* C16 (as stated): the query is the same whatever the order in which the
\* tenant scope and the pagination scope were applied and however many times
\* each was applied: same predicates, limit, offset and order-by clause.
C16_ScopesSameQuery == db = AppliedOnce

\* C16 (amended): in either order, and with a scope applied more than once,
\* the query selects the same rows in the same order, with the same limit and
\* offset; a scope applied again repeats its predicate or its sort key in
\* the statement.
C16_Scopes ==
    /\ Selects(db) = Selects(AppliedOnce)
    /\ db.limit = AppliedOnce.limit
    /\ db.offset = AppliedOnce.offset
    /\ (Len(applied) = 2 /\ applied[1].scope # applied[2].scope) => db = AppliedOnce

\* C16 witness: the pagination scope then the tenant scope on one query.
C16_Witness ==
    /\ Len(applied) = 2
    /\ applied[1].scope = "pagination"
    /\ applied[2].scope = "tenant"
    /\ Len(db.where) = 1 /\ Len(db.order) = 1 /\ db.limit.set

-----------------------------------------------------------------------------
(* The caller of the sanitizer.                                            *)

\* The fields a flat structure may have: plain and sensitive ones, strings
\* and numbers, exported and unexported.
FlatFields ==
    <<Field("Name", TRUE, GoString("ann")),
      Field("Password", TRUE, GoString("hunter2")),
      Field("PASSWORD", TRUE, GoString("")),
      Field("ApiKey", TRUE, GoString("k-1")),
      Field("Token", TRUE, GoInt(7)),
      Field("Count", TRUE, GoInt(3)),
      Field("password", FALSE, GoString("hidden")),
      Field("count", FALSE, GoInt(9))>>

\* The structure with the fields of FlatFields at the positions in chosen.
RECURSIVE Pick(_, _)
Pick(chosen, n) ==
    IF n = 0
      THEN <<>>
      ELSE IF n \in chosen THEN Append(Pick(chosen, n - 1), FlatFields[n])
                           ELSE Pick(chosen, n - 1)

FlatStructs == {GoStruct(Pick(chosen, Len(FlatFields))) : chosen \in SUBSET (1..Len(FlatFields))}

\* Values that are not structures: nil, primitives, pointers to them.
NonStructs ==
    {GoNil, GoNilPtr, GoString("plain"), GoInt(5), GoMap({"m"}), GoPtr(GoString("plain")),
     GoPtr(GoInt(5))}

\* Structures that hold structures, by value and by reference.
Credentials == GoStruct(<<Field("Name", TRUE, GoString("ann")),
                          Field("Password", TRUE, GoString("hunter2"))>>)
Plain == GoStruct(<<Field("Name", TRUE, GoString("ann")), Field("Count", TRUE, GoInt(3))>>)
NestedStructs ==
    {GoStruct(<<Field("Id", TRUE, GoString("u-1")), Field(name, TRUE, inner)>>) :
        name \in {"Inner", "Ref", "Auth"},
        inner \in {Credentials, GoPtr(Credentials), Plain, GoPtr(Plain), GoStruct(<<>>),
                   GoStruct(<<Field("Inner", TRUE, Credentials)>>),
                   GoPtr(GoStruct(<<Field("Ref", TRUE, GoPtr(Credentials))>>))}}

\* What a caller may hand to sanitize: a value or a pointer to it.
SanitizeInputs ==
    NonStructs \cup FlatStructs \cup NestedStructs
      \cup {GoPtr(v) : v \in FlatStructs \cup NestedStructs}

InitSanitize ==
    /\ ChainIdle
    /\ DataIdle
    /\ PagedIdle
    /\ input \in SanitizeInputs
    /\ original = input
    /\ output = NotSanitized

\* sanitize(v, sensitiveFields): the value is read, never written.
CallSanitize ==
    /\ ~output.called
    /\ output' = Sanitized(sanitize(input))
    /\ UNCHANGED <<input, original, chainVars, dataVars, pagedVars>>

NextSanitize == CallSanitize

SpecSanitize == InitSanitize /\ [][NextSanitize]_vars

\* The structure behind a value: the value, or what a non-nil pointer
\* points to.
Deref(v) == IF v.k = "ptr" THEN v.e ELSE v
IsStruct(v) == Deref(v).k = "struct"
\* A flat structure: no field is a structure or a pointer.
IsFlat(v) ==
    /\ IsStruct(v)
    /\ \A i \in 1..Len(Deref(v).f) : Deref(v).f[i].val.k \notin {"struct", "ptr", "nilptr"}

\* A field name that matches the sensitive set whatever its case.
IsSensitive(name) == \E s \in sensitiveFields : ToLower(s) = ToLower(name)

\* What the copy holds in place of a sensitive field.
Replaced(val) == IF val.k = "string" THEN GoString(Redacted) ELSE Zero(val)

\* C17 (as stated): the copy of a flat structure has the marker in every
\* sensitive string field, the zero value in every other sensitive field and
\* the original's value in every other field; the original is unchanged; a
\* value that is not a structure is returned as it is.
C17_SanitizeFlat_EveryField ==
    output.called =>
        /\ input = original
        /\ ~IsStruct(original) => output.v = original
        /\ IsFlat(original) =>
              /\ output.v.k = "ptr"
              /\ output.v.e.k = "struct"
              /\ Len(output.v.e.f) = Len(Deref(original).f)
              /\ \A i \in 1..Len(Deref(original).f) :
                    LET fld == Deref(original).f[i]
                        copied == output.v.e.f[i]
                    IN  /\ copied.name = fld.name
                        /\ copied.val = (IF IsSensitive(fld.name) THEN Replaced(fld.val)
                                                                  ELSE fld.val)

\* C17 (amended): as above for the exported fields; an unexported field is
\* not copied and holds its zero value in the copy, sensitive or not.
C17_SanitizeFlat ==
    output.called =>
        /\ input = original
        /\ ~IsStruct(original) => output.v = original
        /\ IsFlat(original) =>
              /\ output.v.k = "ptr"
              /\ output.v.e.k = "struct"
              /\ Len(output.v.e.f) = Len(Deref(original).f)
              /\ \A i \in 1..Len(Deref(original).f) :
                    LET fld == Deref(original).f[i]
                        copied == output.v.e.f[i]
                    IN  /\ copied.name = fld.name
                        /\ copied.val =
                              (IF ~fld.exported THEN Zero(fld.val)
                               ELSE IF IsSensitive(fld.name) THEN Replaced(fld.val)
                               ELSE fld.val)

\* C17 witness: a flat structure with sensitive and plain fields, exported
\* and unexported, was sanitized.
C17_Witness ==
    /\ output.called
    /\ original = GoStruct(FlatFields)
    /\ output.v.k = "ptr"
    /\ output.v.e.f[2].val = GoString(Redacted)
    /\ output.v.e.f[5].val = GoInt(0)
    /\ output.v.e.f[6].val = GoInt(3)

\* The strings a value holds in fields without a sensitive name, at any
\* depth.
RECURSIVE PlainValues(_)
PlainValues(v) ==
    CASE v.k = "ptr" -> PlainValues(v.e)
      [] v.k = "struct" ->
            UNION {IF IsSensitive(v.f[i].name)
                     THEN {}
                     ELSE IF v.f[i].val.k = "string" THEN {v.f[i].val.v}
                                                     ELSE PlainValues(v.f[i].val) :
                   i \in 1..Len(v.f)}
      [] OTHER -> {}

\* C18: sanitizing a structure that holds structures, by value or by
\* reference, returns normally; in the copy no sensitive field at any depth
\* keeps its value, and the values of the other fields are the original's.
C18_SanitizeNested ==
    (output.called /\ IsStruct(original) /\ ~IsFlat(original)) =>
        /\ output.v # GoPanic
        /\ SensitiveValues(output.v) \subseteq {Redacted, ""}
        /\ PlainValues(output.v) = PlainValues(original)

\* C20: on a context for which GetTenant succeeds, whether the tenant id is
\* attached to the context or found only in the metadata, every predicate
\* the tenant scope added compares tenant_id with the id GetTenant returns,
\* never with nil nor with the empty string.
C20_TenantScopeMatchesGetTenant ==
    ~GetTenant(callerCtx).err =>
        \A i \in 1..Len(db.where) :
            db.where[i].query = "tenant_id = ?" =>
                /\ db.where[i].arg.set
                /\ db.where[i].arg.v # ""
                /\ db.where[i].arg.v = GetTenant(callerCtx).id

-----------------------------------------------------------------------------
(* Calls in flight at the same time: each on its goroutine, their steps    *)
(* interleaved in any order.                                               *)

\* Number of calls processed concurrently.
NumConcurrent == 2
ConcurrentCalls == 1..NumConcurrent

\* The requests of the concurrent calls: a user of each of two tenants on an
\* exempt and on a protected procedure, a call without tenant and one with
\* a forged token.
ConcurrentRequests ==
    {[procedure |-> p, tenant |-> "acme", auth |-> [scheme |-> "Bearer", cred |-> "tok-alice"]] :
        p \in Procedures}
      \cup {[procedure |-> p, tenant |-> "globex",
             auth |-> [scheme |-> "Bearer", cred |-> "tok-bob"]] : p \in Procedures}
      \cup {[procedure |-> "/orders.v1.Orders/List", tenant |-> "",
             auth |-> [scheme |-> "Bearer", cred |-> "tok-alice"]],
            [procedure |-> "/orders.v1.Orders/List", tenant |-> "acme",
             auth |-> [scheme |-> "Bearer", cred |-> "tok-forged"]]}

InitConcurrent ==
    /\ req \in [ConcurrentCalls -> ConcurrentRequests]
    /\ pc = [c \in ConcurrentCalls |-> "start"]
    /\ ctx = [c \in ConcurrentCalls |-> Background]
    /\ token = [c \in ConcurrentCalls |-> ""]
    /\ trace = [c \in ConcurrentCalls |-> <<>>]
    /\ result = [c \in ConcurrentCalls |-> NoResult]
    /\ returned = [c \in ConcurrentCalls |-> NoResult]
    /\ log = [c \in ConcurrentCalls |-> <<>>]
    /\ observed = [c \in ConcurrentCalls |-> NotRead]
    /\ DataIdle
    /\ PagedIdle
    /\ SanitizeIdle

NextConcurrent ==
    \E c \in ConcurrentCalls :
        \/ LoggingUnaryInterceptor(c)
        \/ UnaryTenantInterceptor(c)
        \/ UnaryTokenInterceptor(c)
        \/ UnaryTokenInterceptorVerify(c)
        \/ UnaryTokenInterceptorClaims(c)
        \/ Handler(c)
        \/ LoggingUnaryInterceptorReturn(c)

SpecConcurrent == InitConcurrent /\ [][NextConcurrent]_vars

\* What belongs to call c.
Row(c) == <<req[c], pc[c], ctx[c], token[c], trace[c], result[c], returned[c], log[c],
            observed[c]>>

\* C19: in every interleaving, the tenant id and the claims a call's handler
\* observes, and those GetTenant, GetUserClaims and WithTenantScope find on
\* its context, come from the headers of that same call; and a step of one
\* call changes nothing of another call: not its context, its result nor
\* its error.
C19_CallsIsolated ==
    /\ [](\A c \in ConcurrentCalls :
            LET ownClaims == Claims(Verify(ExtractHeaderToken(req[c]).token).idToken).claims
            IN  /\ Value(ctx[c], XTenantKey).set => Value(ctx[c], XTenantKey).v = req[c].tenant
                /\ Value(ctx[c], ContextKeyUser).set =>
                      Value(ctx[c], ContextKeyUser).v = ownClaims
                /\ Invoked(c, "handler") =>
                      /\ GetTenant(ctx[c]) = [id |-> req[c].tenant, err |-> FALSE]
                      /\ WithTenantScope(ctx[c], NewDB).where[1].arg
                            = [set |-> TRUE, v |-> req[c].tenant]
                      /\ ~Exempt(c) =>
                            GetUserClaims(ctx[c]) = [panic |-> FALSE, claims |-> ownClaims]
                /\ pc[c] \in {"logging", "done", "panicked"} /\ Invoked(c, "handler") =>
                      /\ observed[c].tenant = [id |-> req[c].tenant, err |-> FALSE]
                      /\ (observed[c].read /\ ~observed[c].panic) =>
                            observed[c].claims = ownClaims)
    /\ [][\A c \in ConcurrentCalls : pc'[c] = pc[c] => Row(c)' = Row(c)]_vars

\* C19 witness: two calls of different tenants and users were in flight
\* together, one past its handler while the other had not reached it, and
\* both handlers read their claims.
C19_Witness ==
    \E c, d \in ConcurrentCalls :
        /\ c # d
        /\ req[c].tenant = "acme" /\ req[d].tenant = "globex"
        /\ pc[c] = "done" /\ pc[d] = "done"
        /\ observed[c].claims = "alice" /\ observed[d].claims = "bob"
        /\ returned[c].set /\ returned[d].set

=============================================================================
